---- MODULE Spec2Model ----
(***************************************************************************)
(* Smart ZZP Hub: the statement aggregator, the statement status           *)
(* lifecycle and the legal invoice issuer, as a state machine over the     *)
(* relational store.  Every `await query(...)` of a handler is one atomic  *)
(* step on the store; several requests may be in flight at once.           *)
(***************************************************************************)
EXTENDS Integers, Sequences, FiniteSets, TLC

(***************************************************************************)
(* Bounds of the model                                                     *)
(***************************************************************************)
\* requests started in one behaviour of the concurrent specification
MaxOps == 4

(***************************************************************************)
(* Program constants                                                       *)
(***************************************************************************)
\* String(sequence).padStart(4, '0')
PadWidth == 4
\* a falsy request field (undefined / empty string)
Nil == ""
\* a falsy id
NoId == 0

\* rows of the companies and zzp_users tables (seed data; never modified here)
Companies == {"c1", "c2"}
Zzps == {"z1", "z2", "z3"}
ZzpCompany == [z \in Zzps |-> IF z = "z3" THEN "c2" ELSE "c1"]

validStatuses == {"open", "approved", "invoiced", "paid"}

(***************************************************************************)
(* Calendar arithmetic of the JavaScript Date object (UTC)                 *)
(***************************************************************************)
\* Date.UTC(y, m-1, d) / 86400000: days since 1970-01-01
DaysFromCivil(y, m, d) ==
  LET yy  == IF m <= 2 THEN y - 1 ELSE y
      era == yy \div 400
      yoe == yy - era * 400
      mp  == (m + 9) % 12
      doy == (153 * mp + 2) \div 5 + d - 1
      doe == yoe * 365 + yoe \div 4 - yoe \div 100 + doy
  IN  era * 146097 + doe - 719468

\* toISOString().split('T')[0]: the calendar date <<y, m, d>> of a day number
CivilFromDays(z) ==
  LET zz  == z + 719468
      era == zz \div 146097
      doe == zz - era * 146097
      yoe == (doe - doe \div 1460 + doe \div 36524 - doe \div 146096) \div 365
      doy == doe - (365 * yoe + yoe \div 4 - yoe \div 100)
      mp  == (5 * doy + 2) \div 153
      d   == doy - (153 * mp + 2) \div 5 + 1
      m   == IF mp < 10 THEN mp + 3 ELSE mp - 9
      y   == yoe + era * 400
  IN  << IF m <= 2 THEN y + 1 ELSE y, m, d >>

\* getUTCDay(): 0 = Sunday .. 6 = Saturday
UTCDay(z) == (z + 4) % 7

\* comparison of two DATE values <<y, m, d>>
DateLeq(a, b) ==
  \/ a[1] < b[1]
  \/ a[1] = b[1] /\ a[2] < b[2]
  \/ a[1] = b[1] /\ a[2] = b[2] /\ a[3] <= b[3]

\* getWeekDateRange(year, weekNumber)
getWeekDateRange(year, weekNumber) ==
  LET jan4         == DaysFromCivil(year, 1, 4)
      dow          == UTCDay(jan4)
      dayOfWeek    == IF dow = 0 THEN 7 ELSE dow
      week1Monday  == jan4 - dayOfWeek + 1
      targetMonday == week1Monday + (weekNumber - 1) * 7
      targetSunday == targetMonday + 6
  IN  [startDate |-> CivilFromDays(targetMonday),
       endDate   |-> CivilFromDays(targetSunday)]

\* the same week number with the calendar year of the date in place of the year of
\* its Thursday
getISOWeekInfoCalendarYear(dateString) ==
  LET date      == DaysFromCivil(dateString[1], dateString[2], dateString[3])
      dow       == UTCDay(date)
      dayOfWeek == IF dow = 0 THEN 7 ELSE dow
      thursday  == date + 4 - dayOfWeek
      yearStart == DaysFromCivil(CivilFromDays(thursday)[1], 1, 1)
  IN  [year |-> dateString[1],
       weekNumber |-> ((thursday - yearStart) + 1 + 6) \div 7]

\* getISOWeekInfo(dateString), dateString a calendar date <<y, m, d>>
getISOWeekInfo(dateString) ==
  LET date      == DaysFromCivil(dateString[1], dateString[2], dateString[3])
      dow       == UTCDay(date)
      dayOfWeek == IF dow = 0 THEN 7 ELSE dow
      thursday  == date + 4 - dayOfWeek
      year      == CivilFromDays(thursday)[1]
      yearStart == DaysFromCivil(year, 1, 1)
  IN  [year |-> year,
       \* Math.ceil(((thursday - yearStart) / 86400000 + 1) / 7)
       weekNumber |-> ((thursday - yearStart) + 1 + 6) \div 7]

(***************************************************************************)
(* Legal invoice numbers: the text FACT-{year}-{digits}                    *)
(***************************************************************************)
RECURSIVE DigitsOf(_)
\* String(n) for n >= 0, as a sequence of decimal digits
DigitsOf(n) == IF n < 10 THEN <<n>> ELSE Append(DigitsOf(n \div 10), n % 10)

RECURSIVE padStart(_, _)
\* s.padStart(w, '0')
padStart(s, w) == IF Len(s) >= w THEN s ELSE padStart(<<0>> \o s, w)

RECURSIVE parseInt(_)
\* parseInt(text) of a text of decimal digits
parseInt(s) == IF Len(s) = 0 THEN 0
               ELSE 10 * parseInt(SubSeq(s, 1, Len(s) - 1)) + s[Len(s)]

\* generateLegalInvoiceNumber(year, sequence)
generateLegalInvoiceNumber(year, sequence) ==
  [year |-> year, digits |-> padStart(DigitsOf(sequence), PadWidth)]

RECURSIVE TextLess(_, _)
\* a < b in the text order of ORDER BY on two digit texts
TextLess(a, b) ==
  IF Len(a) = 0 THEN Len(b) > 0
  ELSE IF Len(b) = 0 THEN FALSE
  ELSE IF a[1] # b[1] THEN a[1] < b[1]
  ELSE TextLess(Tail(a), Tail(b))

(***************************************************************************)
(* State                                                                   *)
(***************************************************************************)
VARIABLES
  worklogs,     \* rows of table worklogs
  statements,   \* rows of table statements
  invoices,     \* rows of table invoices
  nextId,       \* gen_random_uuid(): the next fresh row id
  clock,        \* NOW(): a logical timestamp, advanced by every invoice insert
  today,        \* new Date(): the server's date (UTC), as a day number
  req,          \* the requests in flight, one per connection
  budget,       \* requests the clients may still start
  issued        \* history: every invoice number ever stored, in creation order

vars == <<worklogs, statements, invoices, nextId, clock, today, req, budget, issued>>

\* new Date().getFullYear()
currentYear == CivilFromDays(today)[1]

\* getCurrentISOWeekInfo()
getCurrentISOWeekInfo == getISOWeekInfo(CivilFromDays(today))

Procs == {1, 2}

Idle == [op |-> "none", pc |-> "idle"]

InitStore ==
  /\ worklogs = {}
  /\ statements = {}
  /\ invoices = {}
  /\ nextId = 1
  /\ clock = 1
  /\ today = DaysFromCivil(2025, 6, 16)
  /\ req = [p \in Procs |-> Idle]
  /\ issued = <<>>

\* the concurrent specification starts from the empty store
Init == InitStore /\ budget = MaxOps

(***************************************************************************)
(* Principals and the authorization guard                                  *)
(***************************************************************************)
NoUser == [role |-> "none", companyId |-> Nil, profileId |-> Nil]
AdminC1 == [role |-> "company_admin", companyId |-> "c1", profileId |-> Nil]
AdminC2 == [role |-> "company_admin", companyId |-> "c2", profileId |-> Nil]
ZzpZ1 == [role |-> "zzp_user", companyId |-> "c1", profileId |-> "z1"]

\* a router that lets every request through to its handlers
requireRolesNone(user) == 0

\* authenticate, then router.use(requireRoles([...])): 0 = next()
requireRoles(user) ==
  IF user = NoUser THEN 401
  ELSE IF user.role \notin {"company_admin", "company_staff", "zzp_user"} THEN 403
  ELSE 0

\* the same guard without the comparison of the principal's company
assertCompanyScopeAnyTenant(user, companyId) ==
  IF companyId = Nil THEN 400 ELSE 0

\* assertCompanyScope(req, res, companyId): 0 = true, else the status sent
assertCompanyScope(user, companyId) ==
  IF companyId = Nil THEN 400
  ELSE IF user.role \in {"company_admin", "company_staff"} /\ user.companyId # companyId
       THEN 403
  ELSE IF user.role = "zzp_user" /\ user.companyId # Nil /\ user.companyId # companyId
       THEN 403
  ELSE 0

(***************************************************************************)
(* Queries on the store                                                    *)
(***************************************************************************)
RECURSIVE SumAmount(_)
\* SUM(quantity * unit_price) over a set of worklog rows
SumAmount(rows) ==
  IF rows = {} THEN 0
  ELSE LET w == CHOOSE x \in rows : TRUE
       IN  w.quantity * w.unit_price + SumAmount(rows \ {w})

\* FROM worklogs WHERE company_id = $1 AND zzp_id = $2 AND work_date >= $3 AND work_date <= $4
WorklogsInRange(companyId, zzpId, range) ==
  {w \in worklogs : /\ w.company_id = companyId
                    /\ w.zzp_id = zzpId
                    /\ DateLeq(range.startDate, w.work_date)
                    /\ DateLeq(w.work_date, range.endDate)}

\* the aggregation query of POST /api/statements/generate: one row per zzp_id
AggregateWorklogs(companyId, zzpId, range) ==
  LET zs == {w.zzp_id : w \in {x \in worklogs :
                                  /\ x.company_id = companyId
                                  /\ DateLeq(range.startDate, x.work_date)
                                  /\ DateLeq(x.work_date, range.endDate)
                                  /\ (zzpId # Nil => x.zzp_id = zzpId)}}
  IN  {[zzp_id |-> z, total_amount |-> SumAmount(WorklogsInRange(companyId, z, range))]
         : z \in zs}

\* FROM statements WHERE company_id = $1 AND zzp_id = $2 AND year = $3 AND week_number = $4
StatementsByKey(companyId, zzpId, year, weekNumber) ==
  {s \in statements : /\ s.company_id = companyId
                      /\ s.zzp_id = zzpId
                      /\ s.year = year
                      /\ s.week_number = weekNumber}

\* FROM statements WHERE id = $1
StatementsById(id) == {s \in statements : s.id = id}

\* FROM invoices WHERE statement_id = $1
InvoicesByStatement(id) == {i \in invoices : i.statement_id = id}

\* UPDATE statements SET total_amount = $1, status = 'open' WHERE <key>
UpdateByKey(companyId, zzpId, year, weekNumber, total) ==
  {IF s \in StatementsByKey(companyId, zzpId, year, weekNumber)
     THEN [s EXCEPT !.total_amount = total, !.status = "open"]
     ELSE s : s \in statements}

\* the foreign keys of statements and worklogs: company_id, zzp_id
ForeignKeysOk(companyId, zzpId) == companyId \in Companies /\ zzpId \in Zzps

\* INSERT INTO statements (...) VALUES (..., 'open'): table statements has no
\* uniqueness constraint on (company_id, zzp_id, year, week_number)
NewStatement(id, companyId, zzpId, year, weekNumber, total) ==
  [id |-> id, company_id |-> companyId, zzp_id |-> zzpId, year |-> year,
   week_number |-> weekNumber, total_amount |-> total, status |-> "open"]

\* getNextInvoiceSequence(year)
getNextInvoiceSequence(year) ==
  LET rows == {i \in invoices : i.invoice_number.year = year}
  IN  IF rows = {} THEN 1
      ELSE LET last == CHOOSE i \in rows : \A j \in rows :
                          ~ TextLess(i.invoice_number.digits, j.invoice_number.digits)
           IN  parseInt(last.invoice_number.digits) + 1

\* the same insert on a table whose invoice_number column is not UNIQUE
InvoiceInsertOkNumberNotUnique(statementId, invoiceNumber) ==
  /\ {s \in statements : s.id = statementId} # {}
  /\ \A i \in invoices : i.statement_id # statementId

\* the constraints of INSERT INTO invoices: statement_id REFERENCES statements,
\* statement_id UNIQUE, invoice_number UNIQUE
InvoiceInsertOk(statementId, invoiceNumber) ==
  /\ StatementsById(statementId) # {}
  /\ \A i \in invoices : i.statement_id # statementId
  /\ \A i \in invoices : i.invoice_number # invoiceNumber

(***************************************************************************)
(* Requests                                                                *)
(***************************************************************************)
\* whether the request on connection q is being handled
InFlight(q) == req[q].pc \notin {"idle", "done"}

\* history: a request that begins while r is in flight ends r's running alone
Others(r, q) ==
  IF r.pc = "start" /\ InFlight(q) THEN [req[q] EXCEPT !.solo = FALSE] ELSE req[q]

\* res.status(code).json(body): the handler is over
Reply(p, r, code, body) ==
  req' = [q \in Procs |->
            IF q = p THEN [op |-> r.op, pc |-> "done", from |-> r.pc, user |-> r.user,
                           args |-> r.args, loc |-> r.loc, solo |-> r.solo,
                           resp |-> [status |-> code, body |-> body]]
            ELSE Others(r, q)]

\* the handler goes on to its next query
Goto(p, r, pc, loc) ==
  req' = [q \in Procs |->
            IF q = p THEN [op |-> r.op, pc |-> pc, user |-> r.user, args |-> r.args,
                           loc |-> loc, solo |-> r.solo, resp |-> Nil]
            ELSE Others(r, q)]

\* a request arrives on connection p
NewRequest(p, op, user, args) ==
  [op |-> op, pc |-> "start", user |-> user, args |-> args, loc |-> Nil, resp |-> Nil,
   solo |-> \A q \in Procs \ {p} : ~ InFlight(q)]

\* the connection is free again
Respond(p) ==
  /\ req[p].pc = "done"
  /\ req' = [req EXCEPT ![p] = Idle]
  /\ UNCHANGED <<worklogs, statements, invoices, nextId, clock, today, budget, issued>>

(***************************************************************************)
(* POST /api/worklogs                                                      *)
(***************************************************************************)
VALID_TARIFF_TYPES == {"stop", "hour", "location", "point", "project"}

\* the same handler with the company scope checked after the INSERT
RecordWorklogInsertFirst(p, user, companyId, zzpId, workDate, tariffType, quantity, unitPrice) ==
  /\ req[p].pc = "idle"
  /\ budget > 0
  /\ budget' = budget - 1
  /\ LET r == NewRequest(p, "record", user,
                         [companyId |-> companyId, zzpId |-> zzpId, workDate |-> workDate,
                          tariffType |-> tariffType, quantity |-> quantity,
                          unitPrice |-> unitPrice])
         denied == IF user = NoUser THEN 401
                   ELSE IF user.role = "zzp_user" THEN 403
                   ELSE IF companyId = Nil \/ zzpId = Nil \/ workDate = Nil \/ tariffType = Nil
                        THEN 400
                   ELSE IF tariffType \notin VALID_TARIFF_TYPES THEN 400
                   ELSE IF companyId \notin Companies \/ zzpId \notin Zzps THEN 400
                   ELSE 0
         scope == IF user.role \in {"company_admin", "company_staff"}
                     /\ user.companyId # companyId THEN 403 ELSE 201
         row == [id |-> nextId, company_id |-> companyId, zzp_id |-> zzpId,
                 work_date |-> workDate, tariff_type |-> tariffType,
                 quantity |-> quantity, unit_price |-> unitPrice]
     IN  IF denied # 0
           THEN /\ Reply(p, r, denied, Nil)
                /\ UNCHANGED <<worklogs, nextId>>
           ELSE /\ worklogs' = worklogs \cup {row}
                /\ nextId' = nextId + 1
                /\ Reply(p, r, scope, IF scope = 201 THEN row ELSE Nil)
  /\ UNCHANGED <<statements, invoices, clock, today, issued>>

RecordWorklog(p, user, companyId, zzpId, workDate, tariffType, quantity, unitPrice) ==
  /\ req[p].pc = "idle"
  /\ budget > 0
  /\ budget' = budget - 1
  /\ LET r == NewRequest(p, "record", user,
                         [companyId |-> companyId, zzpId |-> zzpId, workDate |-> workDate,
                          tariffType |-> tariffType, quantity |-> quantity,
                          unitPrice |-> unitPrice])
         denied == IF requireRoles(user) # 0 THEN requireRoles(user)
                   ELSE IF user.role = "zzp_user" THEN 403
                   ELSE IF companyId = Nil \/ zzpId = Nil \/ workDate = Nil \/ tariffType = Nil
                        THEN 400
                   ELSE IF tariffType \notin VALID_TARIFF_TYPES THEN 400
                   ELSE assertCompanyScope(user, companyId)
     IN  IF denied # 0
           THEN /\ Reply(p, r, denied, Nil)
                /\ UNCHANGED <<worklogs, nextId>>
         ELSE IF ~ ForeignKeysOk(companyId, zzpId)
           THEN /\ Reply(p, r, 400, Nil)
                /\ UNCHANGED <<worklogs, nextId>>
         ELSE LET row == [id |-> nextId, company_id |-> companyId, zzp_id |-> zzpId,
                          work_date |-> workDate, tariff_type |-> tariffType,
                          quantity |-> quantity, unit_price |-> unitPrice]
              IN  /\ worklogs' = worklogs \cup {row}
                  /\ nextId' = nextId + 1
                  /\ Reply(p, r, 201, row)
  /\ UNCHANGED <<statements, invoices, clock, today, issued>>

(***************************************************************************)
(* POST /api/statements/generate                                           *)
(***************************************************************************)
GenerateStart(p, user, companyId, zzpId, year, weekNumber) ==
  /\ req[p].pc = "idle"
  /\ budget > 0
  /\ budget' = budget - 1
  /\ LET targetCompanyId == IF companyId # Nil THEN companyId ELSE user.companyId
         \* if (!year || !weekNumber): default to the current ISO week
         currentWeek == getCurrentISOWeekInfo
         yr == IF year # 0 THEN year ELSE currentWeek.year
         wk == IF weekNumber # 0 THEN weekNumber ELSE currentWeek.weekNumber
         r == NewRequest(p, "generate", user,
                         [companyId |-> targetCompanyId, zzpId |-> zzpId,
                          year |-> yr, weekNumber |-> wk])
         denied == IF requireRoles(user) # 0 THEN requireRoles(user)
                   ELSE IF user.role = "zzp_user" THEN 403
                   ELSE assertCompanyScope(user, targetCompanyId)
         rows == AggregateWorklogs(targetCompanyId, zzpId, getWeekDateRange(yr, wk))
     IN  IF denied # 0 THEN Reply(p, r, denied, Nil)
         ELSE IF rows = {}
           THEN IF zzpId # Nil THEN Goto(p, r, "gEmptySelect", Nil)
                ELSE Reply(p, r, 200, <<>>)
         ELSE Goto(p, r, "gLoopSelect", [rows |-> rows, out |-> <<>>])
  /\ UNCHANGED <<worklogs, statements, invoices, nextId, clock, today, issued>>

\* no worklogs, zzpId given: SELECT id FROM statements WHERE <key>
GenerateEmptySelect(p) ==
  /\ req[p].pc = "gEmptySelect"
  /\ LET r == req[p]
         a == r.args
     IN  Goto(p, r, "gEmptyWrite",
              [exists |-> StatementsByKey(a.companyId, a.zzpId, a.year, a.weekNumber) # {}])
  /\ UNCHANGED <<worklogs, statements, invoices, nextId, clock, today, budget, issued>>

\* no worklogs, zzpId given: UPDATE ... SET total_amount = 0, status = 'open' or INSERT
GenerateEmptyWrite(p) ==
  /\ req[p].pc = "gEmptyWrite"
  /\ LET r == req[p]
         a == r.args
     IN  IF r.loc.exists
           THEN /\ statements' = UpdateByKey(a.companyId, a.zzpId, a.year, a.weekNumber, 0)
                /\ UNCHANGED nextId
                /\ LET updated == {[s EXCEPT !.total_amount = 0, !.status = "open"]
                                     : s \in StatementsByKey(a.companyId, a.zzpId,
                                                             a.year, a.weekNumber)}
                   IN  \E body \in (IF updated = {} THEN {Nil} ELSE updated) :
                         Reply(p, r, 200, body)
         ELSE IF ~ ForeignKeysOk(a.companyId, a.zzpId)
           THEN /\ Reply(p, r, 400, Nil)
                /\ UNCHANGED <<statements, nextId>>
         ELSE LET row == NewStatement(nextId, a.companyId, a.zzpId, a.year, a.weekNumber, 0)
              IN  /\ statements' = statements \cup {row}
                  /\ nextId' = nextId + 1
                  /\ Reply(p, r, 201, row)
  /\ UNCHANGED <<worklogs, invoices, clock, today, budget, issued>>

\* for (const row of worklogResult.rows): SELECT id FROM statements WHERE <key>
GenerateLoopSelect(p) ==
  /\ req[p].pc = "gLoopSelect"
  /\ LET r == req[p]
         a == r.args
     IN  \E row \in r.loc.rows :
           Goto(p, r, "gLoopWrite",
                [rows |-> r.loc.rows \ {row}, out |-> r.loc.out, row |-> row,
                 exists |-> StatementsByKey(a.companyId, row.zzp_id, a.year, a.weekNumber) # {}])
  /\ UNCHANGED <<worklogs, statements, invoices, nextId, clock, today, budget, issued>>

\* for (const row of worklogResult.rows): UPDATE ... SET status = 'open' or INSERT
GenerateLoopWrite(p) ==
  /\ req[p].pc = "gLoopWrite"
  /\ LET r == req[p]
         a == r.args
         row == r.loc.row
         updated == {[s EXCEPT !.total_amount = row.total_amount, !.status = "open"]
                       : s \in StatementsByKey(a.companyId, row.zzp_id, a.year, a.weekNumber)}
         inserted == NewStatement(nextId, a.companyId, row.zzp_id, a.year, a.weekNumber,
                                  row.total_amount)
     IN  \E result \in (IF ~ r.loc.exists THEN {inserted}
                        ELSE IF updated = {} THEN {Nil} ELSE updated) :
           /\ IF r.loc.exists
                THEN /\ statements' = UpdateByKey(a.companyId, row.zzp_id, a.year,
                                                  a.weekNumber, row.total_amount)
                     /\ UNCHANGED nextId
                ELSE /\ statements' = statements \cup {inserted}
                     /\ nextId' = nextId + 1
           /\ LET out == Append(r.loc.out, result)
              IN  IF r.loc.rows = {}
                    THEN Reply(p, r, 201, out)
                    ELSE Goto(p, r, "gLoopSelect", [rows |-> r.loc.rows, out |-> out])
  /\ UNCHANGED <<worklogs, invoices, clock, today, budget, issued>>

(***************************************************************************)
(* PATCH /api/statements/:id                                               *)
(***************************************************************************)
\* the same route without the check that turns contractors away
PatchStartAnyRole(p, user, id, status) ==
  /\ req[p].pc = "idle"
  /\ budget > 0
  /\ budget' = budget - 1
  /\ LET r == NewRequest(p, "patch", user, [id |-> id, status |-> status])
         denied == IF requireRoles(user) # 0 THEN requireRoles(user)
                   ELSE IF status \notin validStatuses THEN 400
                   ELSE IF StatementsById(id) = {} THEN 404
                   ELSE assertCompanyScope(user,
                          (CHOOSE s \in StatementsById(id) : TRUE).company_id)
     IN  IF denied # 0 THEN Reply(p, r, denied, Nil)
         ELSE Goto(p, r, "pWrite", Nil)
  /\ UNCHANGED <<worklogs, statements, invoices, nextId, clock, today, issued>>

PatchStart(p, user, id, status) ==
  /\ req[p].pc = "idle"
  /\ budget > 0
  /\ budget' = budget - 1
  /\ LET r == NewRequest(p, "patch", user, [id |-> id, status |-> status])
         denied == IF requireRoles(user) # 0 THEN requireRoles(user)
                   ELSE IF user.role = "zzp_user" THEN 403
                   ELSE IF status = Nil THEN 400
                   ELSE IF status \notin validStatuses THEN 400
                   ELSE IF StatementsById(id) = {} THEN 404
                   ELSE assertCompanyScope(user,
                          (CHOOSE s \in StatementsById(id) : TRUE).company_id)
     IN  IF denied # 0 THEN Reply(p, r, denied, Nil)
         ELSE Goto(p, r, "pWrite", Nil)
  /\ UNCHANGED <<worklogs, statements, invoices, nextId, clock, today, issued>>

\* the same update also clearing the amount: SET status = $1, total_amount = 0
PatchWriteClearsTotal(p) ==
  /\ req[p].pc = "pWrite"
  /\ LET r == req[p]
         hit == {s \in statements : s.id = r.args.id}
         set(s) == [s EXCEPT !.status = r.args.status, !.total_amount = 0]
     IN  IF hit = {}
           THEN /\ Reply(p, r, 404, Nil)
                /\ UNCHANGED statements
           ELSE /\ statements' = {IF s \in hit THEN set(s) ELSE s : s \in statements}
                /\ Reply(p, r, 200, set(CHOOSE s \in hit : TRUE))
  /\ UNCHANGED <<worklogs, invoices, nextId, clock, today, budget, issued>>

\* UPDATE statements SET status = $1 WHERE id = $2
PatchWrite(p) ==
  /\ req[p].pc = "pWrite"
  /\ LET r == req[p]
         hit == StatementsById(r.args.id)
     IN  IF hit = {}
           THEN /\ Reply(p, r, 404, Nil)
                /\ UNCHANGED statements
           ELSE /\ statements' = {IF s \in hit THEN [s EXCEPT !.status = r.args.status] ELSE s
                                    : s \in statements}
                /\ Reply(p, r, 200,
                         [(CHOOSE s \in hit : TRUE) EXCEPT !.status = r.args.status])
  /\ UNCHANGED <<worklogs, invoices, nextId, clock, today, budget, issued>>

(***************************************************************************)
(* DELETE /api/statements/:id                                              *)
(***************************************************************************)
DeleteStart(p, user, id) ==
  /\ req[p].pc = "idle"
  /\ budget > 0
  /\ budget' = budget - 1
  /\ LET r == NewRequest(p, "delete", user, [id |-> id])
         denied == IF requireRoles(user) # 0 THEN requireRoles(user)
                   ELSE IF user.role = "zzp_user" THEN 403
                   ELSE IF StatementsById(id) = {} THEN 404
                   ELSE assertCompanyScope(user,
                          (CHOOSE s \in StatementsById(id) : TRUE).company_id)
     IN  IF denied # 0 THEN Reply(p, r, denied, Nil)
         ELSE Goto(p, r, "dWrite", Nil)
  /\ UNCHANGED <<worklogs, statements, invoices, nextId, clock, today, issued>>

\* DELETE FROM statements WHERE id = $1; invoices.statement_id ... ON DELETE CASCADE
DeleteWrite(p) ==
  /\ req[p].pc = "dWrite"
  /\ statements' = statements \ StatementsById(req[p].args.id)
  /\ invoices' = invoices \ InvoicesByStatement(req[p].args.id)
  /\ Reply(p, req[p], 204, Nil)
  /\ UNCHANGED <<worklogs, nextId, clock, today, budget, issued>>

(***************************************************************************)
(* POST /api/invoices/generate (issue)                                     *)
(***************************************************************************)
\* BTW rate for Netherlands, in percent
BTW_RATE == 21

\* SELECT ... FROM invoices WHERE statement_id = $1
IssueStart(p, user, statementId) ==
  /\ req[p].pc = "idle"
  /\ budget > 0
  /\ budget' = budget - 1
  /\ LET r == NewRequest(p, "issue", user, [statementId |-> statementId])
         existing == InvoicesByStatement(statementId)
     IN  IF statementId = NoId THEN Reply(p, r, 400, Nil)
         ELSE IF existing # {}
           THEN Goto(p, r, "iExisting", [existingInvoice |-> CHOOSE i \in existing : TRUE])
         ELSE Goto(p, r, "iStatement", Nil)
  /\ UNCHANGED <<worklogs, statements, invoices, nextId, clock, today, issued>>

\* an invoice exists: SELECT ... FROM statements WHERE id = $1, then 200
IssueExisting(p) ==
  /\ req[p].pc = "iExisting"
  /\ LET r == req[p]
         rows == StatementsById(r.args.statementId)
     IN  IF rows = {}
           THEN Reply(p, r, 500, Nil)
           ELSE Reply(p, r, 200,
                      [invoiceId |-> r.loc.existingInvoice.id,
                       invoiceNumber |-> r.loc.existingInvoice.invoice_number,
                       statementId |-> r.args.statementId,
                       total |-> 100 * (CHOOSE s \in rows : TRUE).total_amount,
                       createdAt |-> r.loc.existingInvoice.created_at,
                       isExisting |-> TRUE])
  /\ UNCHANGED <<worklogs, statements, invoices, nextId, clock, today, budget, issued>>

\* SELECT ... FROM statements s JOIN companies c JOIN zzp_users z WHERE s.id = $1
IssueStatement(p) ==
  /\ req[p].pc = "iStatement"
  /\ LET r == req[p]
         rows == {s \in StatementsById(r.args.statementId) :
                    s.company_id \in Companies /\ s.zzp_id \in Zzps}
     IN  IF rows = {} THEN Reply(p, r, 404, Nil)
         ELSE Goto(p, r, "iWorklogs", [statement |-> CHOOSE s \in rows : TRUE])
  /\ UNCHANGED <<worklogs, statements, invoices, nextId, clock, today, budget, issued>>

\* SELECT ... FROM worklogs of the statement's week; subtotal, btw, total; currentYear
IssueWorklogs(p) ==
  /\ req[p].pc = "iWorklogs"
  /\ LET r == req[p]
         st == r.loc.statement
         subtotal == SumAmount(WorklogsInRange(st.company_id, st.zzp_id,
                                               getWeekDateRange(st.year, st.week_number)))
     IN  Goto(p, r, "iSequence",
              [statement |-> st, subtotal |-> 100 * subtotal, btw |-> BTW_RATE * subtotal,
               total |-> 100 * subtotal + BTW_RATE * subtotal, year |-> currentYear])
  /\ UNCHANGED <<worklogs, statements, invoices, nextId, clock, today, budget, issued>>

\* const sequence = await getNextInvoiceSequence(currentYear)
IssueSequence(p) ==
  /\ req[p].pc = "iSequence"
  /\ LET r == req[p]
         l == r.loc
     IN  Goto(p, r, "iInsert",
              [statement |-> l.statement, subtotal |-> l.subtotal, btw |-> l.btw,
               total |-> l.total,
               invoiceNumber |->
                 generateLegalInvoiceNumber(l.year, getNextInvoiceSequence(l.year))])
  /\ UNCHANGED <<worklogs, statements, invoices, nextId, clock, today, budget, issued>>

\* INSERT INTO invoices (statement_id, invoice_number, file_url); a rejected insert
\* throws into catch (error) { res.status(500) }
IssueInsert(p) ==
  /\ req[p].pc = "iInsert"
  /\ LET r == req[p]
         l == r.loc
     IN  IF ~ InvoiceInsertOk(r.args.statementId, l.invoiceNumber)
           THEN /\ Reply(p, r, 500, Nil)
                /\ UNCHANGED <<invoices, nextId, clock, issued>>
           ELSE /\ invoices' = invoices \cup
                      {[id |-> nextId, statement_id |-> r.args.statementId,
                        invoice_number |-> l.invoiceNumber, created_at |-> clock]}
                /\ nextId' = nextId + 1
                /\ clock' = clock + 1
                /\ issued' = Append(issued, l.invoiceNumber)
                /\ Reply(p, r, 201,
                         [invoiceId |-> nextId, invoiceNumber |-> l.invoiceNumber,
                          statementId |-> l.statement.id, total |-> l.total,
                          createdAt |-> clock, isExisting |-> FALSE])
  /\ UNCHANGED <<worklogs, statements, today, budget>>

(***************************************************************************)
(* DELETE /api/worklogs/:id                                                *)
(***************************************************************************)
\* FROM worklogs WHERE id = $1
WorklogsById(id) == {w \in worklogs : w.id = id}

DeleteWorklogStart(p, user, id) ==
  /\ req[p].pc = "idle"
  /\ budget > 0
  /\ budget' = budget - 1
  /\ LET r == NewRequest(p, "deleteWorklog", user, [id |-> id])
         denied == IF requireRoles(user) # 0 THEN requireRoles(user)
                   ELSE IF user.role = "zzp_user" THEN 403
                   ELSE IF WorklogsById(id) = {} THEN 404
                   ELSE assertCompanyScope(user,
                          (CHOOSE w \in WorklogsById(id) : TRUE).company_id)
     IN  IF denied # 0 THEN Reply(p, r, denied, Nil)
         ELSE Goto(p, r, "wWrite", Nil)
  /\ UNCHANGED <<worklogs, statements, invoices, nextId, clock, today, issued>>

\* DELETE FROM worklogs WHERE id = $1
DeleteWorklogWrite(p) ==
  /\ req[p].pc = "wWrite"
  /\ worklogs' = worklogs \ WorklogsById(req[p].args.id)
  /\ Reply(p, req[p], 204, Nil)
  /\ UNCHANGED <<statements, invoices, nextId, clock, today, budget, issued>>

(***************************************************************************)
(* The read routes                                                         *)
(***************************************************************************)
\* assertZzpScope(req, res, zzpId): 0 = true, else the status sent
assertZzpScope(user, zzpId) ==
  IF zzpId = Nil THEN 400
  ELSE IF user.role = "zzp_user" /\ user.profileId # zzpId THEN 403
  ELSE 0

\* the guard of the get and export routes on the row they fetched
assertRowScope(user, row) ==
  IF assertCompanyScope(user, row.company_id) # 0
    THEN assertCompanyScope(user, row.company_id)
  ELSE IF user.role = "zzp_user" THEN assertZzpScope(user, row.zzp_id)
  ELSE 0

\* a read request: the response is sent by the step that starts it
ReadReply(p, op, user, args, code, body) ==
  /\ req[p].pc = "idle"
  /\ budget > 0
  /\ budget' = budget - 1
  /\ Reply(p, NewRequest(p, op, user, args), code, body)
  /\ UNCHANGED <<worklogs, statements, invoices, nextId, clock, today, issued>>

\* GET /api/statements?companyId=&zzpId=
ListStatements(p, user, companyId, zzpId) ==
  LET companyFilter == IF companyId # Nil THEN companyId ELSE user.companyId
      zzpFilter == IF user.role = "zzp_user" THEN user.profileId ELSE zzpId
      denied == IF requireRoles(user) # 0 THEN requireRoles(user)
                ELSE assertCompanyScope(user, companyFilter)
      items == {s \in statements : /\ s.company_id = companyFilter
                                   /\ (zzpFilter # Nil => s.zzp_id = zzpFilter)}
  IN  ReadReply(p, "listStatements", user, [companyId |-> companyId, zzpId |-> zzpId],
                IF denied # 0 THEN denied ELSE 200,
                IF denied # 0 THEN {} ELSE items)

\* GET /api/statements/:id
GetStatement(p, user, id) ==
  LET rows == StatementsById(id)
      denied == IF requireRoles(user) # 0 THEN requireRoles(user)
                ELSE IF rows = {} THEN 404
                ELSE assertRowScope(user, CHOOSE s \in rows : TRUE)
  IN  ReadReply(p, "getStatement", user, [id |-> id],
                IF denied # 0 THEN denied ELSE 200,
                IF denied # 0 THEN {} ELSE rows)

\* GET /api/worklogs?companyId=&zzpId=
ListWorklogs(p, user, companyId, zzpId) ==
  LET companyFilter == IF companyId # Nil THEN companyId ELSE user.companyId
      zzpFilter == IF user.role = "zzp_user" THEN user.profileId ELSE zzpId
      denied == IF requireRoles(user) # 0 THEN requireRoles(user)
                ELSE assertCompanyScope(user, companyFilter)
      items == {w \in worklogs : /\ w.company_id = companyFilter
                                 /\ (zzpFilter # Nil => w.zzp_id = zzpFilter)}
  IN  ReadReply(p, "listWorklogs", user, [companyId |-> companyId, zzpId |-> zzpId],
                IF denied # 0 THEN denied ELSE 200,
                IF denied # 0 THEN {} ELSE items)

\* GET /api/worklogs/:id
GetWorklog(p, user, id) ==
  LET rows == WorklogsById(id)
      denied == IF requireRoles(user) # 0 THEN requireRoles(user)
                ELSE IF rows = {} THEN 404
                ELSE assertRowScope(user, CHOOSE w \in rows : TRUE)
  IN  ReadReply(p, "getWorklog", user, [id |-> id],
                IF denied # 0 THEN denied ELSE 200,
                IF denied # 0 THEN {} ELSE rows)

\* GET /api/statements/:id/export/csv and /export/pdf: fetch the statement, guard
ExportStart(p, user, id, format) ==
  /\ req[p].pc = "idle"
  /\ budget > 0
  /\ budget' = budget - 1
  /\ LET r == NewRequest(p, "export", user, [id |-> id, format |-> format])
         rows == StatementsById(id)
         denied == IF requireRoles(user) # 0 THEN requireRoles(user)
                   ELSE IF rows = {} THEN 404
                   ELSE assertRowScope(user, CHOOSE s \in rows : TRUE)
     IN  IF denied # 0 THEN Reply(p, r, denied, {})
         ELSE Goto(p, r, "xWorklogs", [statement |-> CHOOSE s \in rows : TRUE])
  /\ UNCHANGED <<worklogs, statements, invoices, nextId, clock, today, issued>>

\* the export's worklogs of the statement's week, then the document
ExportWorklogs(p) ==
  /\ req[p].pc = "xWorklogs"
  /\ LET r == req[p]
         st == r.loc.statement
     IN  Reply(p, r, 200,
               WorklogsInRange(st.company_id, st.zzp_id,
                               getWeekDateRange(st.year, st.week_number)))
  /\ UNCHANGED <<worklogs, statements, invoices, nextId, clock, today, budget, issued>>

\* GET /api/invoices/by-statement/:statementId
InvoiceByStatement(p, user, statementId) ==
  LET rows == InvoicesByStatement(statementId)
  IN  ReadReply(p, "invoiceByStatement", user, [statementId |-> statementId],
                IF rows = {} THEN 404 ELSE 200, rows)

(***************************************************************************)
(* Specifications                                                          *)
(***************************************************************************)
\* the request inputs explored
Users == {AdminC1}
WorkDates == {<<2024, 11, 25>>, <<2024, 12, 2>>}
Years == {2024}
Weeks == {48}
StatementIds == 0 .. (nextId - 1)

\* a client sends a request on connection p
Start(p) ==
  \/ \E u \in Users, z \in {"z1", "z2"}, d \in WorkDates :
       RecordWorklog(p, u, "c1", z, d, "hour", 8, 75)
  \/ \E u \in Users, z \in {Nil, "z1", "z2"}, y \in Years, w \in Weeks :
       GenerateStart(p, u, "c1", z, y, w)
  \/ \E u \in Users, id \in StatementIds, st \in validStatuses : PatchStart(p, u, id, st)
  \/ \E u \in Users, id \in StatementIds : DeleteStart(p, u, id)
  \/ \E u \in Users, id \in StatementIds : IssueStart(p, u, id)

\* a request in flight takes its next step
Step(p) ==
  \/ GenerateEmptySelect(p)
  \/ GenerateEmptyWrite(p)
  \/ GenerateLoopSelect(p)
  \/ GenerateLoopWrite(p)
  \/ PatchWrite(p)
  \/ DeleteWrite(p)
  \/ IssueExisting(p)
  \/ IssueStatement(p)
  \/ IssueWorklogs(p)
  \/ IssueSequence(p)
  \/ IssueInsert(p)
  \/ Respond(p)

\* concurrent requests on every connection
Next ==
  \/ \E p \in Procs : Start(p)
  \/ \E p \in Procs : Step(p)

Spec == Init /\ [][Next]_vars

(***************************************************************************)
(* The invoice issuer on its own: statements are created by generate (with *)
(* an explicit contractor), issued and deleted.                            *)
(***************************************************************************)
\* requests started in one behaviour of the issuer specifications
MaxOpsIssue == 5
MaxOpsSerial == 8

StartCreate(p) ==
  \E z \in {"z1", "z2"}, w \in Weeks : GenerateStart(p, AdminC1, "c1", z, 2024, w)

StartIssue(p) ==
  \E id \in StatementIds : IssueStart(p, AdminC1, id)

StartDelete(p) ==
  \E id \in StatementIds : DeleteStart(p, AdminC1, id)

IssuerStep(p) ==
  \/ GenerateEmptySelect(p)
  \/ GenerateEmptyWrite(p)
  \/ DeleteWrite(p)
  \/ IssueExisting(p)
  \/ IssueStatement(p)
  \/ IssueWorklogs(p)
  \/ IssueSequence(p)
  \/ IssueInsert(p)
  \/ Respond(p)

\* concurrent issuing
InitIssue == InitStore /\ budget = MaxOpsIssue

NextIssue ==
  \E p \in Procs : StartCreate(p) \/ StartIssue(p) \/ StartDelete(p) \/ IssuerStep(p)

SpecIssue == InitIssue /\ [][NextIssue]_vars

\* requests served strictly one after another, on one connection
InitSeq == InitStore /\ budget = MaxOpsSerial

NextSeq == StartCreate(1) \/ StartIssue(1) \/ StartDelete(1) \/ IssuerStep(1)

SpecSeq == InitSeq /\ [][NextSeq]_vars

(***************************************************************************)
(* Serial issuing late in a busy year.  InitHighWater is the store after   *)
(* 10^PadWidth - 2 invoices were issued in the year and every statement    *)
(* but the last one was deleted again (its invoice goes with it, ON DELETE *)
(* CASCADE); issued keeps the last number only.                            *)
(***************************************************************************)
RECURSIVE Pow10(_)
Pow10(n) == IF n = 0 THEN 1 ELSE 10 * Pow10(n - 1)

HighWater == Pow10(PadWidth) - 2

InitHighWater ==
  /\ worklogs = {}
  /\ statements = {[NewStatement(1, "c1", "z1", 2024, 47, 0) EXCEPT !.status = "paid"]}
  /\ invoices = {[id |-> 2, statement_id |-> 1, created_at |-> 1,
                  invoice_number |-> generateLegalInvoiceNumber(2025, HighWater)]}
  /\ nextId = 3
  /\ clock = 2
  /\ today = DaysFromCivil(2025, 6, 16)
  /\ req = [p \in Procs |-> Idle]
  /\ issued = <<generateLegalInvoiceNumber(2025, HighWater)>>

InitWide == (InitStore \/ InitHighWater) /\ budget = MaxOpsSerial

StartCreateWide(p) ==
  \E z \in {"z1", "z2"}, w \in {48, 49} : GenerateStart(p, AdminC1, "c1", z, 2024, w)

WideStep(p) ==
  \/ GenerateEmptySelect(p)
  \/ GenerateEmptyWrite(p)
  \/ IssueExisting(p)
  \/ IssueStatement(p)
  \/ IssueWorklogs(p)
  \/ IssueSequence(p)
  \/ IssueInsert(p)
  \/ Respond(p)

NextWide == StartCreateWide(1) \/ StartIssue(1) \/ WideStep(1)

SpecWide == InitWide /\ [][NextWide]_vars

(***************************************************************************)
(* Access control: two tenants with work entries, statements and one       *)
(* invoice; every principal sends every request, one request at a time.    *)
(***************************************************************************)
MaxOpsAccess == 2

\* contractor tokens that lack a claim
ZzpNoProfile == [role |-> "zzp_user", companyId |-> "c1", profileId |-> Nil]
ZzpNoCompany == [role |-> "zzp_user", companyId |-> Nil, profileId |-> "z1"]

AccessUsers == {NoUser, AdminC1, AdminC2, ZzpZ1, ZzpNoProfile, ZzpNoCompany}

\* the store after the admins of c1 and c2 recorded work of week 2024-W48,
\* generated the week's statements, and c1 issued the invoice of its first statement
InitTenants ==
  /\ worklogs = {[id |-> 1, company_id |-> "c1", zzp_id |-> "z1", work_date |-> <<2024, 11, 25>>,
                  tariff_type |-> "hour", quantity |-> 8, unit_price |-> 75],
                 [id |-> 2, company_id |-> "c1", zzp_id |-> "z2", work_date |-> <<2024, 11, 25>>,
                  tariff_type |-> "hour", quantity |-> 8, unit_price |-> 75],
                 [id |-> 3, company_id |-> "c2", zzp_id |-> "z3", work_date |-> <<2024, 11, 25>>,
                  tariff_type |-> "hour", quantity |-> 8, unit_price |-> 75]}
  /\ statements = {NewStatement(4, "c1", "z1", 2024, 48, 600),
                   NewStatement(5, "c1", "z2", 2024, 48, 600),
                   NewStatement(6, "c2", "z3", 2024, 48, 600)}
  /\ invoices = {[id |-> 7, statement_id |-> 4, created_at |-> 1,
                  invoice_number |-> generateLegalInvoiceNumber(2025, 1)]}
  /\ nextId = 8
  /\ clock = 2
  /\ today = DaysFromCivil(2025, 6, 16)
  /\ req = [p \in Procs |-> Idle]
  /\ issued = <<generateLegalInvoiceNumber(2025, 1)>>

InitAccess == InitTenants /\ budget = MaxOpsAccess

\* the ids a client may name: none, or the id of a stored row
WorklogIds == {NoId} \cup {w.id : w \in worklogs}
StatementIdsStored == {NoId} \cup {s.id : s \in statements}

StartAccess(p) ==
  \/ \E u \in AccessUsers, c \in {Nil, "c1", "c2"}, z \in {"z1", "z3", "z9"},
        t \in {"hour", "bogus"} :
       RecordWorklog(p, u, c, z, <<2024, 11, 26>>, t, 8, 75)
  \/ \E u \in AccessUsers, id \in WorklogIds : DeleteWorklogStart(p, u, id)
  \/ \E u \in AccessUsers, c \in {Nil, "c1", "c2"}, z \in {Nil, "z1", "z3"} :
       GenerateStart(p, u, c, z, 2024, 48)
  \/ \E u \in AccessUsers, id \in StatementIdsStored, st \in {"open", "paid", "bogus"} :
       PatchStart(p, u, id, st)
  \/ \E u \in AccessUsers, id \in StatementIdsStored : DeleteStart(p, u, id)
  \/ \E u \in AccessUsers, c \in {Nil, "c1", "c2"}, z \in {Nil, "z1"} :
       ListStatements(p, u, c, z)
  \/ \E u \in AccessUsers, id \in StatementIdsStored : GetStatement(p, u, id)
  \/ \E u \in AccessUsers, id \in StatementIdsStored, f \in {"csv", "pdf"} :
       ExportStart(p, u, id, f)
  \/ \E u \in AccessUsers, c \in {Nil, "c1", "c2"}, z \in {Nil, "z1"} :
       ListWorklogs(p, u, c, z)
  \/ \E u \in AccessUsers, id \in WorklogIds : GetWorklog(p, u, id)
  \/ \E u \in AccessUsers, id \in StatementIdsStored : IssueStart(p, u, id)
  \/ \E u \in AccessUsers, id \in StatementIdsStored : InvoiceByStatement(p, u, id)

AccessStep(p) ==
  \/ DeleteWorklogWrite(p)
  \/ GenerateEmptySelect(p)
  \/ GenerateEmptyWrite(p)
  \/ GenerateLoopSelect(p)
  \/ GenerateLoopWrite(p)
  \/ PatchWrite(p)
  \/ DeleteWrite(p)
  \/ ExportWorklogs(p)
  \/ IssueExisting(p)
  \/ IssueStatement(p)
  \/ IssueWorklogs(p)
  \/ IssueSequence(p)
  \/ IssueInsert(p)
  \/ Respond(p)

NextAccess == StartAccess(1) \/ AccessStep(1)

SpecAccess == InitAccess /\ [][NextAccess]_vars

(***************************************************************************)
(* A tenant-wide generate whose loop fails part-way.  query() hands each   *)
(* statement to pool.query on its own: there is no BEGIN / COMMIT, every   *)
(* statement is committed when it returns, and a rejected one throws into  *)
(* catch (error) { sendError(res, 500, ...) }.                             *)
(***************************************************************************)
\* requests started in one behaviour of this specification
MaxOpsPartial == 3

\* the same failure under a transaction around the loop: the rows the request
\* wrote are rolled back
GenerateFailsRollback(p) ==
  /\ req[p].pc \in {"gLoopSelect", "gLoopWrite"}
  /\ statements' = {s \in statements :
                      \A k \in 1 .. Len(req[p].loc.out) : req[p].loc.out[k].id # s.id}
  /\ Reply(p, req[p], 500, Nil)
  /\ UNCHANGED <<worklogs, invoices, nextId, clock, today, budget, issued>>

\* a query of the loop rejects (connection lost, statement timeout): the
\* statement has no effect, earlier ones stay, the handler answers 500
GenerateFails(p) ==
  /\ req[p].pc \in {"gLoopSelect", "gLoopWrite"}
  /\ Reply(p, req[p], 500, Nil)
  /\ UNCHANGED <<worklogs, statements, invoices, nextId, clock, today, budget, issued>>

InitPartial == InitTenants /\ budget = MaxOpsPartial

StartPartial(p) ==
  \/ \E z \in {"z1", "z2"}, q \in {4, 8} :
       RecordWorklog(p, AdminC1, "c1", z, <<2024, 11, 26>>, "hour", q, 75)
  \/ GenerateStart(p, AdminC1, "c1", Nil, 2024, 48)
  \/ \E id \in StatementIdsStored : DeleteStart(p, AdminC1, id)

PartialStep(p) ==
  \/ GenerateLoopSelect(p)
  \/ GenerateLoopWrite(p)
  \/ GenerateFails(p)
  \/ DeleteWrite(p)
  \/ Respond(p)

NextPartial == StartPartial(1) \/ PartialStep(1)

SpecPartial == InitPartial /\ [][NextPartial]_vars

(***************************************************************************)
(* Concurrent issuing once the year's numbers have outgrown PadWidth       *)
(* digits.  InitPastWidth is a store that serial issuing reaches from      *)
(* InitHighWater: four statements were generated and the first two issued  *)
(* (numbers 10^PadWidth - 1 and 10^PadWidth).                              *)
(***************************************************************************)
\* requests started in one behaviour of this specification
MaxOpsCollide == 3

StorePastWidth ==
  /\ worklogs = {}
  /\ statements = {[NewStatement(1, "c1", "z1", 2024, 47, 0) EXCEPT !.status = "paid"],
                   NewStatement(3, "c1", "z1", 2024, 48, 0),
                   NewStatement(4, "c1", "z2", 2024, 48, 0),
                   NewStatement(5, "c1", "z1", 2024, 49, 0),
                   NewStatement(6, "c1", "z2", 2024, 49, 0)}
  /\ invoices = {[id |-> 2, statement_id |-> 1, created_at |-> 1,
                  invoice_number |-> generateLegalInvoiceNumber(2025, HighWater)],
                 [id |-> 7, statement_id |-> 3, created_at |-> 2,
                  invoice_number |-> generateLegalInvoiceNumber(2025, HighWater + 1)],
                 [id |-> 8, statement_id |-> 4, created_at |-> 3,
                  invoice_number |-> generateLegalInvoiceNumber(2025, HighWater + 2)]}
  /\ nextId = 9
  /\ clock = 4
  /\ today = DaysFromCivil(2025, 6, 16)
  /\ issued = <<generateLegalInvoiceNumber(2025, HighWater),
                generateLegalInvoiceNumber(2025, HighWater + 1),
                generateLegalInvoiceNumber(2025, HighWater + 2)>>

InitPastWidth == StorePastWidth /\ req = [p \in Procs |-> Idle]

InitCollide == (InitStore \/ InitPastWidth) /\ budget = MaxOpsCollide

NextCollide ==
  \E p \in Procs : StartCreateWide(p) \/ StartIssue(p) \/ WideStep(p)

SpecCollide == InitCollide /\ [][NextCollide]_vars

(***************************************************************************)
(* Claims                                                                  *)
(***************************************************************************)
\* a finished issue request on connection p
IssueDone(p) == req[p].op = "issue" /\ req[p].pc = "done"

\* C3: under every interleaving of issue requests, no two rows of table invoices
\* carry the same invoice_number.
C3_InvoiceNumberUnique ==
  \A i \in invoices : \A j \in invoices :
    i.id # j.id => i.invoice_number # j.invoice_number

\* C3 witness: two issue requests for different statements computed the same
\* number; one row is stored and the other insert was rejected.
C3_Witness ==
  \E p \in Procs :
    /\ IssueDone(p)
    /\ req[p].from = "iInsert"
    /\ req[p].resp.status = 500
    /\ \E i \in invoices :
         /\ i.invoice_number = req[p].loc.invoiceNumber
         /\ i.statement_id # req[p].args.statementId

\* the step on which the issue handler of connection p sends its response
IssueReplies(p) ==
  /\ req[p].op = "issue"
  /\ req[p].pc \in {"iExisting", "iStatement", "iInsert"}
  /\ req'[p].pc = "done"

\* C1: each statement has at most one invoice row, and every issue call on a
\* statement that has an invoice when the call answers returns that invoice's
\* invoice_number; the call that inserted the row answers isExisting = false and
\* every other call answers isExisting = true.
C1_InvoicePerStatement ==
  [][/\ \A i \in invoices' : \A j \in invoices' :
          i.statement_id = j.statement_id => i.id = j.id
     /\ \A p \in Procs :
          IssueReplies(p) =>
            \A i \in invoices' :
              i.statement_id = req[p].args.statementId =>
                /\ req'[p].resp.status \in {200, 201}
                /\ req'[p].resp.body.invoiceNumber = i.invoice_number
                /\ req'[p].resp.body.isExisting = (i \in invoices)]_vars

\* C2: when an issue request reaches its insert after another request has stored
\* the statement's invoice, it answers with that invoice (same invoice_number,
\* isExisting = true) and not with an error.
C2_RaceLoserReturnsExisting ==
  [][\A p \in Procs :
       (/\ IssueReplies(p)
        /\ req[p].pc = "iInsert"
        /\ InvoicesByStatement(req[p].args.statementId) # {}) =>
         /\ req'[p].resp.status = 200
         /\ \A i \in InvoicesByStatement(req[p].args.statementId) :
              req'[p].resp.body.invoiceNumber = i.invoice_number
         /\ req'[p].resp.body.isExisting = TRUE]_vars

\* C4: when invoices for distinct statements are issued strictly one after another
\* in one year, the first gets sequence 1 and each following one gets the previous
\* invoice's sequence + 1, for every k, written with at least PadWidth digits
\* (zero-padded, no further leading zero).
C4_SequentialNumbering ==
  [][\A p \in Procs :
       (/\ IssueReplies(p)
        /\ req[p].pc = "iInsert") =>
         LET k == IF issued = <<>> THEN 1
                  ELSE parseInt(issued[Len(issued)].digits) + 1
             number == req'[p].resp.body.invoiceNumber
         IN  /\ req'[p].resp.status = 201
             /\ number.year = currentYear
             /\ parseInt(number.digits) = k
             /\ Len(number.digits) >= PadWidth
             /\ Len(number.digits) > PadWidth => number.digits[1] # 0]_vars

\* the sequence numbers of the invoices stored for a year
StoredSequences(year) ==
  {parseInt(i.invoice_number.digits) : i \in {j \in invoices : j.invoice_number.year = year}}

\* C5: in every reachable state, the sequence numbers of the invoices stored for a
\* year are exactly 1..n for some n: no number below the yearly maximum is missing.
C5_GapFree ==
  StoredSequences(currentYear) = 1 .. Cardinality(StoredSequences(currentYear))

\* C6: within one year an invoice created earlier never has a larger sequence
\* number than one created later, also when statements are deleted in between.
C6_MonotoneOverTime ==
  \A j \in 1 .. Len(issued) : \A k \in 1 .. Len(issued) :
    (j < k /\ issued[j].year = issued[k].year) =>
      parseInt(issued[j].digits) <= parseInt(issued[k].digits)

\* the step on which the generate handler of connection p writes table statements
GenerateWrites(p) ==
  /\ req[p].op = "generate"
  /\ req[p].pc \in {"gEmptyWrite", "gLoopWrite"}
  /\ req'[p].pc \in {"gLoopSelect", "done"}

\* C7: a generate call for (tenant, contractor, year, week) that runs with no other
\* request beside it leaves exactly one statement row for that key, keeps the id of
\* the row that was there before the call, and stores as total_amount the sum of
\* quantity * unit_price over the key's entries of that week.
C7_IdempotentAggregation ==
  [][\A p \in Procs :
       (/\ GenerateWrites(p)
        /\ req'[p].pc = "done"
        /\ req[p].solo
        /\ req[p].args.zzpId # Nil) =>
         LET a == req[p].args
             before == StatementsByKey(a.companyId, a.zzpId, a.year, a.weekNumber)
             after == {s \in statements' : /\ s.company_id = a.companyId
                                           /\ s.zzp_id = a.zzpId
                                           /\ s.year = a.year
                                           /\ s.week_number = a.weekNumber}
         IN  /\ Cardinality(after) = 1
             /\ \A s \in before : \A t \in after : t.id = s.id
             /\ \A t \in after :
                  t.total_amount =
                    SumAmount(WorklogsInRange(a.companyId, a.zzpId,
                                              getWeekDateRange(a.year, a.weekNumber)))]_vars

\* C8: in every reachable state, also after concurrent generate requests for one
\* key, at most one statement row exists per (company_id, zzp_id, year, week_number).
C8_StatementKeyUnique ==
  \A s \in statements : \A t \in statements :
    (/\ s.company_id = t.company_id
     /\ s.zzp_id = t.zzp_id
     /\ s.year = t.year
     /\ s.week_number = t.week_number) => s.id = t.id

\* C9: no write of a generate call changes the status of a statement that is
\* invoiced or paid.
C9_GenerateKeepsLockedStatus ==
  [][\A p \in Procs :
       GenerateWrites(p) =>
         \A s \in statements : \A t \in statements' :
           (s.id = t.id /\ s.status \in {"invoiced", "paid"}) => t.status = s.status]_vars

\* the order open < approved < invoiced < paid
StatusRank(status) ==
  CASE status = "open" -> 1
    [] status = "approved" -> 2
    [] status = "invoiced" -> 3
    [] status = "paid" -> 4

\* C10: a status update that would move a statement backward along
\* open < approved < invoiced < paid is rejected and leaves the stored status as
\* it was.
C10_StatusMonotone ==
  [][\A p \in Procs :
       (req[p].op = "patch" /\ req[p].pc = "pWrite" /\ req'[p].pc = "done") =>
         \A s \in StatementsById(req[p].args.id) :
           StatusRank(req[p].args.status) < StatusRank(s.status) =>
             /\ req'[p].resp.status >= 400
             /\ s \in statements']_vars

(***************************************************************************)
(* The current ISO week: generate without year and weekNumber, on any day  *)
(* of the years WeekFirstYear .. WeekLastYear.                             *)
(***************************************************************************)
WeekFirstYear == 2018
WeekLastYear == 2027
MaxOpsWeek == 1

\* the days the server's clock may show
Days == DaysFromCivil(WeekFirstYear, 1, 1) .. DaysFromCivil(WeekLastYear, 12, 31)

InitWeek ==
  /\ worklogs = {}
  /\ statements = {}
  /\ invoices = {}
  /\ nextId = 1
  /\ clock = 1
  /\ today \in Days
  /\ req = [p \in Procs |-> Idle]
  /\ issued = <<>>
  /\ budget = MaxOpsWeek

\* POST /api/statements/generate { companyId, zzpId? }: no year, no weekNumber
StartCurrentWeek(p) ==
  \E z \in {Nil, "z1"} : GenerateStart(p, AdminC1, "c1", z, 0, 0)

NextWeek ==
  \/ StartCurrentWeek(1)
  \/ GenerateEmptySelect(1)
  \/ GenerateEmptyWrite(1)
  \/ Respond(1)

SpecWeek == InitWeek /\ [][NextWeek]_vars

\* C20: for every date d, the range getWeekDateRange(getISOWeekInfo(d).year,
\* getISOWeekInfo(d).weekNumber) has exactly 7 days, starts on a Monday, ends on a
\* Sunday and contains d.
C20_WeekRoundTrip ==
  \A p \in Procs :
    req[p].op = "generate" =>
      LET d == CivilFromDays(today)
          range == getWeekDateRange(req[p].args.year, req[p].args.weekNumber)
          first == DaysFromCivil(range.startDate[1], range.startDate[2], range.startDate[3])
          last == DaysFromCivil(range.endDate[1], range.endDate[2], range.endDate[3])
      IN  /\ last - first + 1 = 7
          /\ UTCDay(first) = 1
          /\ UTCDay(last) = 0
          /\ DateLeq(range.startDate, d)
          /\ DateLeq(d, range.endDate)

\* C20 witness: a statement was generated for the current week on one of the last
\* days of December that belong to week 1 of the next ISO year.
C20_Witness ==
  \E s \in statements :
    /\ s.year = currentYear + 1
    /\ s.week_number = 1
    /\ CivilFromDays(today)[2] = 12

\* connection p receives a request on this step
Arrives(p) == req[p].pc = "idle" /\ req'[p].pc # "idle"

\* C11: every request of a contractor (zzp_user) to record or delete a work entry,
\* to generate a statement, or to change the status of or delete a statement is
\* answered 403 at once and leaves work entries and statements unchanged.
C11_ContractorsCannotWrite ==
  [][\A p \in Procs :
       (/\ Arrives(p)
        /\ req'[p].user.role = "zzp_user"
        /\ req'[p].op \in {"record", "deleteWorklog", "generate", "patch", "delete"}) =>
         /\ req'[p].pc = "done"
         /\ req'[p].resp.status = 403
         /\ worklogs' = worklogs
         /\ statements' = statements]_vars

\* C11 witness: contractor z1 of c1 asked to set its own statement to paid and
\* got 403.
C11_Witness ==
  \E p \in Procs :
    /\ req[p].pc = "done"
    /\ req[p].op = "patch"
    /\ req[p].user = ZzpZ1
    /\ req[p].args.status = "paid"
    /\ req[p].resp.status = 403
    /\ \E s \in StatementsById(req[p].args.id) :
         s.company_id = "c1" /\ s.zzp_id = "z1" /\ s.status = "open"

ReadOps == {"listStatements", "getStatement", "export", "listWorklogs", "getWorklog"}

\* request r of a company-role principal is aimed at a work entry or statement of
\* another tenant, or at another tenant's list
ForeignTarget(r) ==
  /\ r.user.role \in {"company_admin", "company_staff"}
  /\ r.user.companyId \in Companies
  /\ CASE r.op \in {"listStatements", "listWorklogs", "generate"} ->
            r.args.companyId \in Companies \ {r.user.companyId}
       [] r.op \in {"getStatement", "export", "patch", "delete"} ->
            \E s \in StatementsById(r.args.id) : s.company_id # r.user.companyId
       [] r.op \in {"getWorklog", "deleteWorklog"} ->
            \E w \in WorklogsById(r.args.id) : w.company_id # r.user.companyId
       [] OTHER -> FALSE

\* the request that arrives on p is answered at once, changes no table and, if it
\* is a read, returns no row
Refused(p) ==
  /\ req'[p].pc = "done"
  /\ req'[p].op \in ReadOps => req'[p].resp.body = {}
  /\ worklogs' = worklogs
  /\ statements' = statements
  /\ invoices' = invoices

\* C12 (as stated): every list, get, export, generate, status-update and delete
\* request of a company-role principal that targets another tenant answers 403,
\* returns no data of that tenant and modifies none of its rows.
C12_TenantIsolation403 ==
  [][\A p \in Procs :
       (Arrives(p) /\ ForeignTarget(req'[p])) =>
         (Refused(p) /\ req'[p].resp.status = 403)]_vars

\* C12 (amended): such a request is refused with 403, or with 400 when it is a
\* status update whose status is not one of the valid values (checked before the
\* statement is read); in both cases it returns no data of the other tenant and
\* modifies no row.
C12_TenantIsolation ==
  [][\A p \in Procs :
       (Arrives(p) /\ ForeignTarget(req'[p])) =>
         /\ Refused(p)
         /\ req'[p].resp.status =
              IF req'[p].op = "patch" /\ req'[p].args.status \notin validStatuses
                THEN 400 ELSE 403]_vars

\* C12 witness: the admin of c1 asked for the export of a statement of c2 and got
\* 403 with no rows.
C12_Witness ==
  \E p \in Procs :
    /\ req[p].pc = "done"
    /\ req[p].op = "export"
    /\ req[p].user = AdminC1
    /\ \E s \in StatementsById(req[p].args.id) : s.company_id = "c2"
    /\ req[p].resp.status = 403
    /\ req[p].resp.body = {}

\* C13: an issue request or an invoice lookup for a statement of another tenant,
\* or by a caller that is not authenticated, is refused by the tenant guard (401 or
\* 403): it creates no invoice and returns none.
C13_InvoiceTenantGuard ==
  [][\A p \in Procs :
       (/\ Arrives(p)
        /\ req'[p].op \in {"issue", "invoiceByStatement"}
        /\ \E s \in StatementsById(req'[p].args.statementId) :
             req'[p].user = NoUser \/ req'[p].user.companyId # s.company_id) =>
         /\ req'[p].pc = "done"
         /\ req'[p].resp.status \in {401, 403}
         /\ invoices' = invoices]_vars

\* the handler of connection p sends its response on this step
Answers(p) == req[p].pc # "done" /\ req'[p].pc = "done"

\* C14: for a contractor (zzp_user) principal, whatever companyId and profileId its
\* token carries, every statement or work entry returned by list, get or export
\* has zzp_id equal to the principal's profileId and company_id equal to its
\* companyId, and a get or export of another contractor's statement answers 403.
C14_ContractorScope ==
  [][\A p \in Procs :
       (/\ Answers(p)
        /\ req'[p].op \in ReadOps
        /\ req'[p].user.role = "zzp_user") =>
         /\ \A row \in req'[p].resp.body :
              /\ row.zzp_id = req'[p].user.profileId
              /\ row.company_id = req'[p].user.companyId
         /\ (/\ req'[p].op \in {"getStatement", "export"}
             /\ \E s \in StatementsById(req'[p].args.id) :
                  s.zzp_id # req'[p].user.profileId) =>
              req'[p].resp.status = 403]_vars

\* the work-entry and statement operations
GuardedOps ==
  {"record", "deleteWorklog", "generate", "patch", "delete"} \cup ReadOps

\* C15: a request without a valid bearer token to any work-entry or statement
\* operation is answered 401 at once, before any scope check or query of the
\* store, and changes nothing.
C15_UnauthenticatedFirst ==
  [][\A p \in Procs :
       (/\ Arrives(p)
        /\ req'[p].user = NoUser
        /\ req'[p].op \in GuardedOps) =>
         /\ req'[p].pc = "done"
         /\ req'[p].from = "start"
         /\ req'[p].resp.status = 401
         /\ <<worklogs, statements, invoices, nextId, issued>>' =
              <<worklogs, statements, invoices, nextId, issued>>]_vars

\* C15 witness: an unauthenticated request to delete an existing statement, with
\* nothing wrong but the missing token, got 401 and the statement is still there.
C15_Witness ==
  \E p \in Procs :
    /\ req[p].pc = "done"
    /\ req[p].op = "delete"
    /\ req[p].user = NoUser
    /\ req[p].resp.status = 401
    /\ StatementsById(req[p].args.id) # {}

\* C16: a generate call with an explicit contractor and no entries in the week that
\* succeeds leaves exactly one statement for that key, with total_amount 0; a
\* generate call without a contractor for a tenant with no entries in the week
\* answers with an empty list and creates or modifies no statement.
C16_GenerateNoEntries ==
  [][\A p \in Procs :
       /\ (/\ req[p].pc = "gEmptyWrite"
           /\ req'[p].pc = "done"
           /\ req'[p].resp.status \in {200, 201}) =>
            LET a == req[p].args
                after == {s \in statements' : /\ s.company_id = a.companyId
                                              /\ s.zzp_id = a.zzpId
                                              /\ s.year = a.year
                                              /\ s.week_number = a.weekNumber}
            IN  /\ Cardinality(after) = 1
                /\ \A s \in after : s.total_amount = 0
       /\ (/\ Arrives(p)
           /\ req'[p].op = "generate"
           /\ req'[p].args.zzpId = Nil
           /\ requireRoles(req'[p].user) = 0
           /\ req'[p].user.role # "zzp_user"
           /\ assertCompanyScope(req'[p].user, req'[p].args.companyId) = 0
           /\ AggregateWorklogs(req'[p].args.companyId, Nil,
                                getWeekDateRange(req'[p].args.year,
                                                 req'[p].args.weekNumber)) = {}) =>
            /\ req'[p].pc = "done"
            /\ req'[p].resp.status = 200
            /\ req'[p].resp.body = <<>>
            /\ statements' = statements]_vars

\* C17: the number allocated to a new invoice carries the calendar year of the day
\* of issuance, and as sequence 1 + the largest sequence among the stored invoices
\* of that year, or 1 when that year has none.
C17_YearScopedNumbering ==
  [][\A p \in Procs :
       (req[p].pc = "iSequence" /\ req'[p].pc = "iInsert") =>
         LET number == req'[p].loc.invoiceNumber
             ofYear == {parseInt(i.invoice_number.digits) :
                          i \in {j \in invoices : j.invoice_number.year = currentYear}}
         IN  /\ number.year = currentYear
             /\ parseInt(number.digits) =
                  IF ofYear = {} THEN 1
                  ELSE 1 + (CHOOSE m \in ofYear : \A n \in ofYear : n <= m)]_vars

\* the operations that write the store
WriteOps == {"record", "generate", "patch", "delete", "issue"}

\* request r stands after a write of its own: the generate loop has written the
\* statements it collected in out
Wrote(r) == r.pc \in {"gLoopSelect", "gLoopWrite"} /\ r.loc.out # <<>>

C19_RecordChecksLink ==
  [][\A p \in Procs :
       (/\ Arrives(p)
        /\ req'[p].op = "record"
        /\ \/ req'[p].args.zzpId \notin Zzps
           \/ ZzpCompany[req'[p].args.zzpId] # req'[p].args.companyId) =>
         /\ worklogs' = worklogs
         /\ (/\ req'[p].user.role \in {"company_admin", "company_staff"}
             /\ req'[p].user.companyId = req'[p].args.companyId) =>
              /\ req'[p].pc = "done"
              /\ req'[p].resp.status = 400]_vars

\* C21: concurrent generate calls on one key, interleaved with record calls, leave
\* the total that a serial order of those calls would leave: a generate that read
\* an older entry set never overwrites the total written by a generate that read
\* a newer one.  Work entries are only added here and their amounts are positive,
\* so the total read from an older entry set is the smaller one: no write of a
\* generate call lowers the stored total_amount of a statement.
C21_SerializedAggregation ==
  [][\A p \in Procs :
       GenerateWrites(p) =>
         \A s \in statements : \A t \in statements' :
           s.id = t.id => t.total_amount >= s.total_amount]_vars

\* C22: when a tenant-wide generate fails after it wrote the statements of some
\* contractors, every statement it wrote is still stored, whole, with the total
\* computed for its contractor, and the failure changes no statement; and each
\* write of the loop touches the statements of its own contractor's key only,
\* so the contractors not yet processed keep the statements they had.
C22_IndependentCommits ==
  [][\A p \in Procs :
       /\ (/\ req[p].pc \in {"gLoopSelect", "gLoopWrite"}
           /\ req'[p].pc = "done"
           /\ req'[p].resp.status = 500) =>
            /\ statements' = statements
            /\ \A k \in 1 .. Len(req[p].loc.out) :
                 LET row == req[p].loc.out[k]
                     a == req[p].args
                 IN  /\ row \in statements'
                     /\ row.company_id = a.companyId
                     /\ row.year = a.year
                     /\ row.week_number = a.weekNumber
                     /\ row.total_amount =
                          SumAmount(WorklogsInRange(a.companyId, row.zzp_id,
                                                    getWeekDateRange(a.year, a.weekNumber)))
       /\ (req[p].pc = "gLoopWrite" /\ req'[p].pc # "gLoopWrite") =>
            LET a == req[p].args
                mine(s) == /\ s.company_id = a.companyId
                           /\ s.zzp_id = req[p].loc.row.zzp_id
                           /\ s.year = a.year
                           /\ s.week_number = a.weekNumber
            IN  /\ \A s \in statements : ~ mine(s) => s \in statements'
                /\ \A t \in statements' \ statements :
                     mine(t) /\ t.total_amount = req[p].loc.row.total_amount]_vars

\* C22 witness: a tenant-wide generate failed after writing the statement of one
\* contractor and before reaching another; the written statement is stored.
C22_Witness ==
  \E p \in Procs :
    /\ req[p].pc = "done"
    /\ req[p].op = "generate"
    /\ req[p].args.zzpId = Nil
    /\ req[p].resp.status = 500
    /\ Len(req[p].loc.out) = 1
    /\ req[p].loc.rows # {}
    /\ req[p].loc.out[1] \in statements
    /\ \E r \in req[p].loc.rows : r.zzp_id # req[p].loc.out[1].zzp_id

\* C23: once sequence 10^PadWidth - 1 (9999) is stored for the year, every issue
\* call for a statement without an invoice succeeds, and its number is the
\* year's largest sequence + 1, written with more than PadWidth digits and never
\* issued before.
C23_SequenceWidens ==
  [][\A p \in Procs :
       (/\ IssueReplies(p)
        /\ req[p].pc = "iInsert"
        /\ InvoicesByStatement(req[p].args.statementId) = {}
        /\ Pow10(PadWidth) - 1 \in StoredSequences(currentYear)) =>
         /\ req'[p].resp.status = 201
         /\ LET number == req'[p].resp.body.invoiceNumber
            IN  /\ number.year = currentYear
                /\ Len(number.digits) > PadWidth
                /\ \A n \in StoredSequences(currentYear) : parseInt(number.digits) > n
                /\ parseInt(number.digits) - 1 \in StoredSequences(currentYear)
                /\ \A k \in 1 .. Len(issued) : issued[k] # number]_vars

\* the operation of the request that connection p serves on this step
StepOp(p) == IF req[p].pc = "idle" THEN req'[p].op ELSE req[p].op

\* C24: no step of recording or deleting a work entry, updating a statement's
\* status, issuing an invoice or looking one up changes the total_amount of a
\* statement, or adds or removes a statement.
C24_TotalWrittenByGenerateOnly ==
  [][\A p \in Procs :
       (/\ req'[p].pc # req[p].pc
        /\ StepOp(p) \in {"record", "deleteWorklog", "patch", "issue", "invoiceByStatement"}) =>
         /\ {s.id : s \in statements'} = {s.id : s \in statements}
         /\ \A s \in statements : \A t \in statements' :
              s.id = t.id => t.total_amount = s.total_amount]_vars

\* C24 witness: a status update changed the status of a statement whose
\* total_amount is still the sum of its week's entries.
C24_Witness ==
  \E p \in Procs :
    /\ req[p].pc = "done"
    /\ req[p].op = "patch"
    /\ req[p].resp.status = 200
    /\ req[p].args.status = "paid"
    /\ \E s \in StatementsById(req[p].args.id) :
         /\ s.status = "paid"
         /\ s.total_amount = 600
         /\ s.total_amount = SumAmount(WorklogsInRange(s.company_id, s.zzp_id,
                                         getWeekDateRange(s.year, s.week_number)))

\* C25: a generate call without a contractor reads one total per contractor that
\* has an entry of the tenant in the week, the sum of that contractor's entries
\* only; each write of its loop leaves exactly one statement for that contractor's
\* key, holding that total, and changes no statement of another contractor, week
\* or tenant.
C25_GroupsByContractor ==
  [][\A p \in Procs :
       /\ (/\ Arrives(p)
           /\ req'[p].op = "generate"
           /\ req'[p].pc = "gLoopSelect"
           /\ req'[p].args.zzpId = Nil) =>
            LET a == req'[p].args
                range == getWeekDateRange(a.year, a.weekNumber)
            IN  /\ {r.zzp_id : r \in req'[p].loc.rows} =
                     {z \in Zzps : WorklogsInRange(a.companyId, z, range) # {}}
                /\ \A r \in req'[p].loc.rows :
                     r.total_amount = SumAmount(WorklogsInRange(a.companyId, r.zzp_id, range))
       /\ (/\ req[p].pc = "gLoopWrite"
           /\ \/ req'[p].pc = "gLoopSelect"
              \/ req'[p].pc = "done" /\ req'[p].resp.status = 201
           /\ req[p].args.zzpId = Nil) =>
            LET a == req[p].args
                mine(s) == /\ s.company_id = a.companyId
                           /\ s.zzp_id = req[p].loc.row.zzp_id
                           /\ s.year = a.year
                           /\ s.week_number = a.weekNumber
            IN  /\ Cardinality({t \in statements' : mine(t)}) = 1
                /\ \A t \in statements' : mine(t) => t.total_amount = req[p].loc.row.total_amount
                /\ \A s \in statements : ~ mine(s) => s \in statements'
                /\ \A t \in statements' : ~ mine(t) => t \in statements]_vars

\* C26: over every sequence of issue and statement-delete operations, the number
\* given to a new invoice was never given to an invoice before (an invoice leaves
\* the store only with its statement, and statement ids are not reused, so an
\* earlier holder of the number was an invoice of a different statement).
C26_NoNumberReuse ==
  [][\A p \in Procs :
       (/\ IssueReplies(p)
        /\ req[p].pc = "iInsert"
        /\ req'[p].resp.status = 201) =>
         \A k \in 1 .. Len(issued) : issued[k] # req'[p].resp.body.invoiceNumber]_vars

\* C27: in every reachable state, every work entry and every statement names a
\* contractor whose own company is the row's company_id.
C27_TenantConsistentReferences ==
  /\ \A w \in worklogs : w.zzp_id \in Zzps /\ ZzpCompany[w.zzp_id] = w.company_id
  /\ \A s \in statements : s.zzp_id \in Zzps /\ ZzpCompany[s.zzp_id] = s.company_id

\* C28: no step of an issue call changes a statement (its status and total_amount
\* stay as they were), and an issue call for a stored statement that has no
\* invoice yet succeeds with 201, whatever the statement's status and also when
\* its week has no work entries.
C28_IssueLeavesStatement ==
  [][\A p \in Procs :
       /\ (req'[p].pc # req[p].pc /\ StepOp(p) = "issue") => statements' = statements
       /\ (/\ IssueReplies(p)
           /\ StatementsById(req[p].args.statementId) # {}
           /\ InvoicesByStatement(req[p].args.statementId) = {}) =>
            req'[p].resp.status = 201]_vars

\* C29: an issue request whose insert is rejected stores no invoice; and when a
\* request that ran beside another issuer lost its insert that way, a later issue
\* request for the same statement that runs with no other request beside it
\* succeeds and gets the year's largest stored sequence + 1.
C29_CollisionRecovery ==
  [][\A p \in Procs :
       (IssueReplies(p) /\ req[p].pc = "iInsert") =>
         /\ req'[p].resp.status # 201 => invoices' = invoices
         /\ (/\ req[p].solo
             /\ InvoicesByStatement(req[p].args.statementId) = {}
             /\ \E q \in Procs \ {p} :
                  /\ req[q].pc = "done"
                  /\ req[q].op = "issue"
                  /\ req[q].from = "iInsert"
                  /\ req[q].resp.status = 500
                  /\ ~ req[q].solo
                  /\ req[q].args.statementId = req[p].args.statementId) =>
              /\ req'[p].resp.status = 201
              /\ \A n \in StoredSequences(currentYear) :
                   parseInt(req'[p].resp.body.invoiceNumber.digits) > n
              /\ parseInt(req'[p].resp.body.invoiceNumber.digits) - 1
                   \in StoredSequences(currentYear)]_vars

\* subtotal plus BTW, in cents, of the entries stored for statement row s's week
TotalWithBtw(s) ==
  LET subtotal == SumAmount(WorklogsInRange(s.company_id, s.zzp_id,
                                            getWeekDateRange(s.year, s.week_number)))
  IN  100 * subtotal + BTW_RATE * subtotal

\* C30: when the first issue call of a statement (isExisting = false) returned as
\* total the subtotal plus 21% BTW of the week's entries, and the entries and the
\* statement's aggregated total are still the same, a repeated issue call for
\* that statement (isExisting = true) returns the same total.
C30_StableTotal ==
  [][\A p \in Procs : \A q \in Procs \ {p} :
       (/\ IssueReplies(p)
        /\ req[p].pc = "iExisting"
        /\ req'[p].resp.status = 200
        /\ req[q].pc = "done"
        /\ req[q].op = "issue"
        /\ req[q].resp.status = 201
        /\ req[q].args.statementId = req[p].args.statementId
        /\ req[q].resp.body.invoiceNumber = req'[p].resp.body.invoiceNumber
        /\ \A s \in StatementsById(req[p].args.statementId) :
             /\ req[q].resp.body.total = TotalWithBtw(s)
             /\ 100 * s.total_amount + BTW_RATE * s.total_amount = TotalWithBtw(s)) =>
         /\ req'[p].resp.body.isExisting
         /\ ~ req[q].resp.body.isExisting
         /\ req'[p].resp.body.total = req[q].resp.body.total]_vars
====
